---- MODULE Spec2Model ----
(***************************************************************************)
(* The investigation hook useForensicsInvestigation (src/unnamed/part_000)  *)
(* together with its caller App (src/src/App.tsx) and the placeholder       *)
(* service layer (src/unnamed/part_001).                                    *)
(*                                                                          *)
(* The hook's React state is the state of the model.  Every functional      *)
(* update setCurrentInvestigation(prev => ...) is an operator Upd...(prev,  *)
(* ...) applied to the current value at the moment the code calls it:       *)
(* React applies queued updaters in call order, so this is the sequence of  *)
(* logical states.  JavaScript runs each callback to completion: the        *)
(* variable thread names the task whose synchronous block is executing, and *)
(* timers, promise continuations, user events and renders only start when   *)
(* it is 0.                                                                 *)
(*                                                                          *)
(* Inputs.  A caller passes a list of five pipelines, as App does; the      *)
(* lists differ in their ids (the executor's own kinds, App's ids, mixes).  *)
(* A pipeline keeps its id; its name and icon follow the id and are left    *)
(* out.  The Stage Runners, the bootstrap and the channel are external: a   *)
(* runner resolves with the result its placeholder returns or rejects, and  *)
(* only the number of connect() and disconnect() calls is kept of a         *)
(* channel.  The targets passed to a runner do not reach the state.         *)
(***************************************************************************)
EXTENDS Integers, Sequences, FiniteSets, TLC

\* ---------------------------------------------------------------- bounds
MaxInvestigations == 2      \* startNewInvestigation calls in one session
MaxRunnerCalls == 5         \* Stage Runner calls of a session's first list
MaxOverlapCalls == 3        \* Stage Runner calls of a session with several lists
MaxTime == 1                \* wall clock readings 0..MaxTime
MaxRestartCalls == 6        \* Stage Runner calls of a session of RestartSpec

Tasks == 1..MaxInvestigations

\* ------------------------------------------------------- program constants
ProgressCap == 90           \* Math.min(90, ...)
RandomStep == 15            \* Math.random() * 15, a value in [0, 15)
FullProgress == 100         \* progress: 100 on completion

\* Increments the progress simulator can draw (integers of [0, RandomStep)).
Increments == {0, RandomStep - 1}

\* An optional value (x | undefined | null) is <<>> or <<x>>.
None == <<>>
Some(x) == <<x>>

\* ------------------------------------------------------------ collaborators
\* Keys of the pipelineExecutors table of executePipelines.
pipelineExecutors ==
    {"alias-mapping", "metadata-extraction", "image-face-analysis",
     "geo-ip-lookup", "deepfake-detection"}

\* What each placeholder Stage Runner resolves with: the number of data items
\* and metadata.confidence in percent.
StageResult(kind) ==
    [pipelineId |-> kind,
     data |-> 3,
     confidence |-> CASE kind = "alias-mapping" -> 91
                      [] kind = "metadata-extraction" -> 94
                      [] kind = "image-face-analysis" -> 86
                      [] kind = "geo-ip-lookup" -> 93
                      [] OTHER -> 89]

\* What an external asynchronous call can reject with: an Error that carries a
\* message, or a value that is no Error.
Rejections == {"Error", "NonError"}

\* What a Stage Runner rejects with.  The catch block of executePipelines sees
\* an Error whenever an id is unknown, and a value that is no Error here.
RunnerRejections == {"NonError"}

\* err instanceof Error ? err.message : 'Pipeline execution failed'
ErrorMessage(err) ==
    IF err = "NonError" THEN "Pipeline execution failed"
    ELSE IF err = "Error" THEN "runner rejected"
    ELSE err

\* new Error(`Unknown pipeline: ${pipeline.id}`)
UnknownPipeline(id) == "Unknown pipeline: " \o id

\* ------------------------------------------------------------------ inputs
InputPipeline(id, status) ==
    [id |-> id, status |-> status, progress |-> 0, results |-> None, error |-> None]

\* The list App builds for every submitted query.
AppPipelines ==
    << InputPipeline("alias", "running"),
       InputPipeline("metadata", "pending"),
       InputPipeline("image", "pending"),
       InputPipeline("geo", "pending"),
       InputPipeline("deepfake", "pending") >>

\* The same five stages named by the executor's own kinds.
KindPipelines ==
    << InputPipeline("alias-mapping", "running"),
       InputPipeline("metadata-extraction", "pending"),
       InputPipeline("image-face-analysis", "pending"),
       InputPipeline("geo-ip-lookup", "pending"),
       InputPipeline("deepfake-detection", "pending") >>

\* Lists that mix kinds the executor knows with ids it does not.
HeadPipelines ==
    << InputPipeline("alias-mapping", "running"),
       InputPipeline("metadata-extraction", "pending"),
       InputPipeline("image", "pending"),
       InputPipeline("geo", "pending"),
       InputPipeline("deepfake", "pending") >>

MidPipelines ==
    << InputPipeline("alias", "running"),
       InputPipeline("metadata", "pending"),
       InputPipeline("image-face-analysis", "pending"),
       InputPipeline("geo", "pending"),
       InputPipeline("deepfake", "pending") >>

PipelineLists == {AppPipelines, KindPipelines, HeadPipelines, MidPipelines}

\* Number of Stage Runner calls a list leads to.
RunnerCalls(list) == Cardinality({k \in 1..Len(list) : list[k].id \in pipelineExecutors})

\* --------------------------------------------------------------- variables
VARIABLES
    cur,            \* currentInvestigation: None or Some(investigation)
    isLoading,      \* isLoading
    error,          \* error: None or Some(message)
    wsConnection,   \* wsConnection: 0 (null) or the task whose channel it is
    renderedWs,     \* wsConnection as of the last commit (closures and effect)
    connects,       \* per channel, the number of connect() calls
    disconnects,    \* per channel, the number of disconnect() calls
    mounted,        \* the component is mounted
    now,            \* the wall clock
    submitted,      \* startNewInvestigation calls made so far
    reserved,       \* Stage Runner calls of the lists submitted so far
    initial,        \* per task, the initialPipelines argument
    startPc,        \* per task, position in startNewInvestigation
    execPc,         \* per task, position in executePipelines
    execI,          \* per task, the loop index i (1-based)
    snapshot,       \* per task, investigation.pipelines of the argument
    caught,         \* per task, the err of the catch block
    awaited,        \* per task, the result the await returned
    timers,         \* live intervals, <<task, i>>
    started,        \* per task, the indices it has marked running, in order
    thread          \* the task running synchronously, 0 when none

vars == << cur, isLoading, error, wsConnection, renderedWs, connects, disconnects,
           mounted, now, submitted, reserved, initial, startPc, execPc, execI,
           snapshot, caught, awaited, timers, started, thread >>

Terminal == {"completed", "error"}

Init ==
    /\ cur = None
    /\ isLoading = FALSE
    /\ error = None
    /\ wsConnection = 0
    /\ renderedWs = 0
    /\ connects = [t \in Tasks |-> 0]
    /\ disconnects = [t \in Tasks |-> 0]
    /\ mounted = TRUE
    /\ now = 0
    /\ submitted = 0
    /\ reserved = 0
    /\ initial = [t \in Tasks |-> <<>>]
    /\ startPc = [t \in Tasks |-> "idle"]
    /\ execPc = [t \in Tasks |-> "idle"]
    /\ execI = [t \in Tasks |-> 1]
    /\ snapshot = [t \in Tasks |-> <<>>]
    /\ caught = [t \in Tasks |-> ""]
    /\ awaited = [t \in Tasks |-> None]
    /\ timers = {}
    /\ started = [t \in Tasks |-> <<>>]
    /\ thread = 0

\* ------------------------------------------------- state updates (pure)
\* Mutant: the caller's pipelines are stored as they were passed.
ResetPipelinesKeepsStatus(initialPipelines) == initialPipelines

\* pipelines: initialPipelines.map(p => ({ ...p, status: 'pending', progress: 0 }))
ResetPipelines(initialPipelines) ==
    [k \in 1..Len(initialPipelines) |->
        [initialPipelines[k] EXCEPT !.status = "pending", !.progress = 0]]

\* The Investigation object startNewInvestigation builds.
NewInvestigation(investigationId, query, t, initialPipelines) ==
    [id |-> investigationId,
     query |-> query,
     status |-> "active",
     startTime |-> t,
     endTime |-> None,
     pipelines |-> ResetPipelines(initialPipelines),
     summary |-> None]

\* Mutant: the running update spreads the entry it finds in the state instead
\* of the executor's own copy.
UpdRunningKeepsEntry(prev, pipeline, i) ==
    IF prev = None THEN prev
    ELSE Some([prev[1] EXCEPT !.pipelines[i].status = "running",
                              !.pipelines[i].progress = 0])

\* Update pipeline status to running: entry i becomes the executor's own copy
\* of the pipeline, marked running.
UpdRunning(prev, pipeline, i) ==
    IF prev = None THEN prev
    ELSE Some([prev[1] EXCEPT
            !.pipelines[i] = [pipeline EXCEPT !.status = "running", !.progress = 0]])

\* Mutant: the tick caps the progress at 100 instead of 90.
UpdProgressTo100(prev, i, rnd) ==
    IF prev = None THEN prev
    ELSE LET currentPipeline == prev[1].pipelines[i]
         IN  IF currentPipeline.status = "running" /\ currentPipeline.progress < FullProgress
             THEN Some([prev[1] EXCEPT !.pipelines[i].progress =
                        IF currentPipeline.progress + rnd < FullProgress
                        THEN currentPipeline.progress + rnd ELSE FullProgress])
             ELSE prev

\* One tick of the progress interval of stage i, rnd = Math.random() * 15.
UpdProgress(prev, i, rnd) ==
    IF prev = None THEN prev
    ELSE LET currentPipeline == prev[1].pipelines[i]
         IN  IF currentPipeline.status = "running" /\ currentPipeline.progress < ProgressCap
             THEN Some([prev[1] EXCEPT !.pipelines[i].progress =
                        IF currentPipeline.progress + rnd < ProgressCap
                        THEN currentPipeline.progress + rnd ELSE ProgressCap])
             ELSE prev

\* Mutant: the completion update forgets to attach the result.
UpdCompletedNoResult(prev, pipeline, i, result) ==
    IF prev = None THEN prev
    ELSE Some([prev[1] EXCEPT
            !.pipelines[i] = [pipeline EXCEPT !.status = "completed",
                                              !.progress = FullProgress]])

\* Update pipeline with results.
UpdCompleted(prev, pipeline, i, result) ==
    IF prev = None THEN prev
    ELSE Some([prev[1] EXCEPT
            !.pipelines[i] = [pipeline EXCEPT !.status = "completed",
                                              !.progress = FullProgress,
                                              !.results = Some(result)]])

\* Mutant: the error update records the message but leaves the status as the
\* stage had it.
UpdErrorKeepsStatus(prev, pipeline, i, message) ==
    IF prev = None THEN prev
    ELSE Some([prev[1] EXCEPT !.pipelines[i].error = Some(message)])

\* Mutant: a failed stage also fails every pipeline after it.
UpdErrorFailsRest(prev, pipeline, i, message) ==
    IF prev = None THEN prev
    ELSE Some([prev[1] EXCEPT
            !.pipelines = [k \in 1..Len(prev[1].pipelines) |->
                IF k = i
                THEN [pipeline EXCEPT !.status = "error", !.progress = 0,
                                      !.error = Some(message)]
                ELSE IF k > i
                THEN [prev[1].pipelines[k] EXCEPT !.status = "error",
                                                  !.error = Some(message)]
                ELSE prev[1].pipelines[k]]])

\* Handle pipeline error.
UpdError(prev, pipeline, i, message) ==
    IF prev = None THEN prev
    ELSE Some([prev[1] EXCEPT
            !.pipelines[i] = [pipeline EXCEPT !.status = "error",
                                              !.progress = 0,
                                              !.error = Some(message)]])

\* prev.pipelines.filter(p => p.status === 'completed').length
CompletedCount(pipelines) ==
    Cardinality({k \in 1..Len(pipelines) : pipelines[k].status = "completed"})

\* `Investigation completed. ${completedPipelines}/${totalPipelines} pipelines
\* successful.`, kept as the two numbers it prints.
SummaryText(completedPipelines, totalPipelines) == << completedPipelines, totalPipelines >>

\* Mutant: the completion step reports success whenever every pipeline is
\* terminal, failed or not.
UpdFinishCountsTerminal(prev, t) ==
    IF prev = None THEN prev
    ELSE LET completedPipelines ==
                 Cardinality({k \in 1..Len(prev[1].pipelines) :
                                 prev[1].pipelines[k].status \in {"completed", "error"}})
             totalPipelines == Len(prev[1].pipelines)
         IN  Some([prev[1] EXCEPT
                !.status = IF completedPipelines = totalPipelines
                           THEN "completed" ELSE "error",
                !.endTime = Some(t),
                !.summary = Some(SummaryText(completedPipelines, totalPipelines))])

\* Mark investigation as completed.
UpdFinish(prev, t) ==
    IF prev = None THEN prev
    ELSE LET completedPipelines == CompletedCount(prev[1].pipelines)
             totalPipelines == Len(prev[1].pipelines)
         IN  Some([prev[1] EXCEPT
                !.status = IF completedPipelines = totalPipelines
                           THEN "completed" ELSE "error",
                !.endTime = Some(t),
                !.summary = Some(SummaryText(completedPipelines, totalPipelines))])

\* Mutant: the toggle also sets the progress of every running pipeline back
\* to 0.
UpdToggleResetsProgress(prev) ==
    IF prev = None THEN prev
    ELSE Some([prev[1] EXCEPT
            !.status = IF prev[1].status = "active" THEN "paused" ELSE "active",
            !.pipelines = [k \in 1..Len(prev[1].pipelines) |->
                IF prev[1].pipelines[k].status = "running"
                THEN [prev[1].pipelines[k] EXCEPT !.progress = 0]
                ELSE prev[1].pipelines[k]]])

\* toggleInvestigationStatus
UpdToggle(prev) ==
    IF prev = None THEN prev
    ELSE Some([prev[1] EXCEPT
            !.status = IF prev[1].status = "active" THEN "paused" ELSE "active"])

\* The update stopInvestigation makes.
UpdStop(prev, t) ==
    IF prev = None THEN prev
    ELSE Some([prev[1] EXCEPT !.status = "paused", !.endTime = Some(t)])

\* ForensicsWebSocket.disconnect(), counted per channel.
Disconnect(counts, ws) ==
    IF ws = 0 THEN counts ELSE [counts EXCEPT ![ws] = @ + 1]

\* ------------------------------------------------- summary (pure)
\* A JavaScript number that results from a division, kept as the exact pair
\* numerator, denominator.  0 / 0 is NaN.
Number(n) == << n, 1 >>
Quotient(a, b) == << a, b >>
isNaN(x) == x[1] = 0 /\ x[2] = 0

\* reduce((acc, x) => acc + x, 0) over a list of integers
RECURSIVE Reduce(_)
Reduce(xs) == IF xs = << >> THEN 0 ELSE xs[1] + Reduce(Tail(xs))

\* pipeline.results?.data.length || 0
DataLength(pipeline) ==
    IF pipeline.results = None THEN 0 ELSE pipeline.results[1].data

\* pipeline.results?.metadata.confidence || 0
Confidence(pipeline) ==
    IF pipeline.results = None THEN 0 ELSE pipeline.results[1].confidence

\* Mutant: the quotient is returned as it is, without the isNaN test.
getInvestigationSummaryNoGuard(currentInvestigation, dateNow) ==
    IF currentInvestigation = None THEN None
    ELSE LET inv == currentInvestigation[1]
             completedPipelines ==
                 SelectSeq(inv.pipelines, LAMBDA p : p.status = "completed")
         IN  Some([totalPipelines |-> Len(inv.pipelines),
                   completedPipelines |-> Len(completedPipelines),
                   totalResults |-> Reduce([k \in 1..Len(completedPipelines) |->
                                               DataLength(completedPipelines[k])]),
                   averageConfidence |->
                       Quotient(Reduce([k \in 1..Len(completedPipelines) |->
                                           Confidence(completedPipelines[k])]),
                                Len(completedPipelines)),
                   duration |-> IF inv.endTime # None
                                THEN inv.endTime[1] - inv.startTime
                                ELSE dateNow - inv.startTime])

\* Mutant: the duration is always measured up to the current time.
getInvestigationSummaryLiveDuration(currentInvestigation, dateNow) ==
    IF currentInvestigation = None THEN None
    ELSE LET inv == currentInvestigation[1]
             completedPipelines ==
                 SelectSeq(inv.pipelines, LAMBDA p : p.status = "completed")
             averageConfidence ==
                 Quotient(Reduce([k \in 1..Len(completedPipelines) |->
                                     Confidence(completedPipelines[k])]),
                          Len(completedPipelines))
         IN  Some([totalPipelines |-> Len(inv.pipelines),
                   completedPipelines |-> Len(completedPipelines),
                   totalResults |-> Reduce([k \in 1..Len(completedPipelines) |->
                                               DataLength(completedPipelines[k])]),
                   averageConfidence |-> IF isNaN(averageConfidence)
                                         THEN Number(0) ELSE averageConfidence,
                   duration |-> dateNow - inv.startTime])

\* Mutant: the filter keeps every terminal pipeline, failed ones included.
getInvestigationSummaryCountsTerminal(currentInvestigation, dateNow) ==
    IF currentInvestigation = None THEN None
    ELSE LET inv == currentInvestigation[1]
             completedPipelines ==
                 SelectSeq(inv.pipelines,
                           LAMBDA p : p.status \in {"completed", "error"})
             averageConfidence ==
                 Quotient(Reduce([k \in 1..Len(completedPipelines) |->
                                     Confidence(completedPipelines[k])]),
                          Len(completedPipelines))
         IN  Some([totalPipelines |-> Len(inv.pipelines),
                   completedPipelines |-> Len(completedPipelines),
                   totalResults |-> Reduce([k \in 1..Len(completedPipelines) |->
                                               DataLength(completedPipelines[k])]),
                   averageConfidence |-> IF isNaN(averageConfidence)
                                         THEN Number(0) ELSE averageConfidence,
                   duration |-> IF inv.endTime # None
                                THEN inv.endTime[1] - inv.startTime
                                ELSE dateNow - inv.startTime])

\* getInvestigationSummary, with dateNow = Date.now()
getInvestigationSummary(currentInvestigation, dateNow) ==
    IF currentInvestigation = None THEN None
    ELSE LET inv == currentInvestigation[1]
             completedPipelines ==
                 SelectSeq(inv.pipelines, LAMBDA p : p.status = "completed")
             averageConfidence ==
                 Quotient(Reduce([k \in 1..Len(completedPipelines) |->
                                     Confidence(completedPipelines[k])]),
                          Len(completedPipelines))
         IN  Some([totalPipelines |-> Len(inv.pipelines),
                   completedPipelines |-> Len(completedPipelines),
                   totalResults |-> Reduce([k \in 1..Len(completedPipelines) |->
                                               DataLength(completedPipelines[k])]),
                   averageConfidence |-> IF isNaN(averageConfidence)
                                         THEN Number(0) ELSE averageConfidence,
                   duration |-> IF inv.endTime # None
                                THEN inv.endTime[1] - inv.startTime
                                ELSE dateNow - inv.startTime])

\* ---------------------------------------------------------------- actions
Idle == mounted /\ thread = 0

\* A user event is handled by the closures of the latest commit: React
\* commits the pending render before it dispatches the next event.
UserEvent == Idle /\ renderedWs = wsConnection

\* for (let i = 0; i < investigation.pipelines.length; i++)
LoopHead(pipelines, i) == IF i > Len(pipelines) THEN "finish" ELSE "markRunning"

\* startNewInvestigation up to `await startInvestigation(parsedQuery)`.  A
\* session makes at most MaxInvestigations calls.
StartNew(list) ==
    /\ UserEvent
    /\ submitted < MaxInvestigations
    /\ submitted' = submitted + 1
    /\ reserved' = reserved + RunnerCalls(list)
    /\ isLoading' = TRUE
    /\ error' = None
    /\ initial' = [initial EXCEPT ![submitted + 1] = list]
    /\ startPc' = [startPc EXCEPT ![submitted + 1] = "bootstrap"]
    /\ UNCHANGED << cur, wsConnection, renderedWs, connects, disconnects, mounted, now,
                    execPc, execI, snapshot, caught, awaited, timers, started, thread >>

\* A submission of the sessions of Spec: the first list may lead to
\* MaxRunnerCalls Stage Runner calls, and all lists together to MaxOverlapCalls
\* once there is more than one.
Submit(list) ==
    /\ reserved + RunnerCalls(list) <=
            (IF submitted = 0 THEN MaxRunnerCalls ELSE MaxOverlapCalls)
    /\ StartNew(list)

\* The bootstrap resolves: the investigation is created and stored, the channel
\* opened, and executePipelines entered.
BootstrapResolve(e) ==
    /\ Idle
    /\ startPc[e] = "bootstrap"
    /\ LET investigation == NewInvestigation(e, e, now, initial[e])
       IN  /\ cur' = Some(investigation)
           /\ snapshot' = [snapshot EXCEPT ![e] = investigation.pipelines]
           /\ execPc' = [execPc EXCEPT ![e] = LoopHead(investigation.pipelines, 1)]
    /\ connects' = [connects EXCEPT ![e] = @ + 1]
    /\ wsConnection' = e
    /\ execI' = [execI EXCEPT ![e] = 1]
    /\ startPc' = [startPc EXCEPT ![e] = "executing"]
    /\ thread' = e
    /\ UNCHANGED << isLoading, error, renderedWs, disconnects, mounted, now, submitted,
                    reserved, initial, caught, awaited, timers, started >>

\* Mutant: the investigation is built and stored before the bootstrap is
\* awaited, so a rejection leaves it behind.
BootstrapRejectCreates(e, err) ==
    /\ Idle
    /\ startPc[e] = "bootstrap"
    /\ cur' = Some(NewInvestigation(e, e, now, initial[e]))
    /\ error' = Some(IF err = "NonError" THEN "Failed to start investigation"
                     ELSE ErrorMessage(err))
    /\ isLoading' = FALSE
    /\ startPc' = [startPc EXCEPT ![e] = "done"]
    /\ UNCHANGED << wsConnection, renderedWs, connects, disconnects, mounted, now,
                    submitted, reserved, initial, execPc, execI, snapshot, caught,
                    awaited, timers, started, thread >>

\* The bootstrap rejects: catch, then finally.
BootstrapReject(e, err) ==
    /\ Idle
    /\ startPc[e] = "bootstrap"
    /\ error' = Some(IF err = "NonError" THEN "Failed to start investigation"
                     ELSE ErrorMessage(err))
    /\ isLoading' = FALSE
    /\ startPc' = [startPc EXCEPT ![e] = "done"]
    /\ UNCHANGED << cur, wsConnection, renderedWs, connects, disconnects, mounted, now,
                    submitted, reserved, initial, execPc, execI, snapshot, caught,
                    awaited, timers, started, thread >>

\* executePipelines returns its promise (at an await or at its end): the
\* caller goes on to its finally block if this is the first synchronous run.
Yield(e) ==
    IF startPc[e] = "executing"
    THEN /\ startPc' = [startPc EXCEPT ![e] = "finally"]
         /\ thread' = e
    ELSE /\ thread' = 0
         /\ UNCHANGED startPc

\* finally { setIsLoading(false) }
Finally(e) ==
    /\ mounted /\ thread = e
    /\ startPc[e] = "finally"
    /\ isLoading' = FALSE
    /\ startPc' = [startPc EXCEPT ![e] = "done"]
    /\ thread' = 0
    /\ UNCHANGED << cur, error, wsConnection, renderedWs, connects, disconnects, mounted,
                    now, submitted, reserved, initial, execPc, execI, snapshot, caught,
                    awaited, timers, started >>

\* The executor's own steps run while it holds the thread.
Running(e, pc) == mounted /\ thread = e /\ execPc[e] = pc /\ startPc[e] # "finally"

MarkRunning(e) ==
    /\ Running(e, "markRunning")
    /\ cur' = UpdRunning(cur, snapshot[e][execI[e]], execI[e])
    /\ started' = [started EXCEPT ![e] = Append(@, execI[e])]
    /\ execPc' = [execPc EXCEPT ![e] = "setInterval"]
    /\ UNCHANGED << isLoading, error, wsConnection, renderedWs, connects, disconnects,
                    mounted, now, submitted, reserved, initial, startPc, execI,
                    snapshot, caught, awaited, timers, thread >>

\* const progressInterval = setInterval(..., 500)
SetInterval(e) ==
    /\ Running(e, "setInterval")
    /\ timers' = timers \cup {<< e, execI[e] >>}
    /\ execPc' = [execPc EXCEPT ![e] = "invoke"]
    /\ UNCHANGED << cur, isLoading, error, wsConnection, renderedWs, connects,
                    disconnects, mounted, now, submitted, reserved, initial, startPc,
                    execI, snapshot, caught, awaited, thread, started >>

\* The executor is looked up and called: the executor suspends on the await.
InvokeRunner(e) ==
    /\ Running(e, "invoke")
    /\ snapshot[e][execI[e]].id \in pipelineExecutors
    /\ execPc' = [execPc EXCEPT ![e] = "await"]
    /\ Yield(e)
    /\ UNCHANGED << cur, isLoading, error, wsConnection, renderedWs, connects,
                    disconnects, mounted, now, submitted, reserved, initial, execI,
                    snapshot, caught, awaited, timers, started >>

\* Mutant: the throw for an unknown id is not caught inside the loop and ends
\* the run.
ThrowUnknownCrashes(e) ==
    /\ Running(e, "invoke")
    /\ snapshot[e][execI[e]].id \notin pipelineExecutors
    /\ execPc' = [execPc EXCEPT ![e] = "done"]
    /\ Yield(e)
    /\ UNCHANGED << cur, isLoading, error, wsConnection, renderedWs, connects,
                    disconnects, mounted, now, submitted, reserved, initial, execI,
                    snapshot, caught, awaited, timers, started >>

\* No executor under this id: throw new Error(`Unknown pipeline: ...`).
ThrowUnknown(e) ==
    /\ Running(e, "invoke")
    /\ snapshot[e][execI[e]].id \notin pipelineExecutors
    /\ caught' = [caught EXCEPT ![e] = UnknownPipeline(snapshot[e][execI[e]].id)]
    /\ execPc' = [execPc EXCEPT ![e] = "catch"]
    /\ UNCHANGED << cur, isLoading, error, wsConnection, renderedWs, connects,
                    disconnects, mounted, now, submitted, reserved, initial, startPc,
                    execI, snapshot, awaited, timers, started, thread >>

\* The Stage Runner resolves and the executor resumes after the await.
RunnerResolve(e) ==
    /\ Idle
    /\ execPc[e] = "await"
    /\ awaited' = [awaited EXCEPT ![e] = Some(StageResult(snapshot[e][execI[e]].id))]
    /\ execPc' = [execPc EXCEPT ![e] = "clearInterval"]
    /\ thread' = e
    /\ UNCHANGED << cur, isLoading, error, wsConnection, renderedWs, connects,
                    disconnects, mounted, now, submitted, reserved, initial, startPc,
                    execI, snapshot, caught, timers, started >>

\* The Stage Runner rejects and the executor resumes in the catch block.
RunnerReject(e, err) ==
    /\ Idle
    /\ execPc[e] = "await"
    /\ caught' = [caught EXCEPT ![e] = err]
    /\ execPc' = [execPc EXCEPT ![e] = "catch"]
    /\ thread' = e
    /\ UNCHANGED << cur, isLoading, error, wsConnection, renderedWs, connects,
                    disconnects, mounted, now, submitted, reserved, initial, startPc,
                    execI, snapshot, awaited, timers, started >>

\* clearInterval(progressInterval), reached on the success path only.
ClearInterval(e) ==
    /\ Running(e, "clearInterval")
    /\ timers' = timers \ {<< e, execI[e] >>}
    /\ execPc' = [execPc EXCEPT ![e] = "setCompleted"]
    /\ UNCHANGED << cur, isLoading, error, wsConnection, renderedWs, connects,
                    disconnects, mounted, now, submitted, reserved, initial, startPc,
                    execI, snapshot, caught, awaited, thread, started >>

SetCompleted(e) ==
    /\ Running(e, "setCompleted")
    /\ cur' = UpdCompleted(cur, snapshot[e][execI[e]], execI[e], awaited[e][1])
    /\ awaited' = [awaited EXCEPT ![e] = None]
    /\ execI' = [execI EXCEPT ![e] = @ + 1]
    /\ execPc' = [execPc EXCEPT ![e] = LoopHead(snapshot[e], execI[e] + 1)]
    /\ UNCHANGED << isLoading, error, wsConnection, renderedWs, connects, disconnects,
                    mounted, now, submitted, reserved, initial, startPc, snapshot,
                    caught, timers, started, thread >>

\* Mutant: the catch block records the failure and rethrows, which ends the run.
CatchRethrows(e) ==
    /\ Running(e, "catch")
    /\ cur' = UpdError(cur, snapshot[e][execI[e]], execI[e], ErrorMessage(caught[e]))
    /\ caught' = [caught EXCEPT ![e] = ""]
    /\ execI' = [execI EXCEPT ![e] = @ + 1]
    /\ execPc' = [execPc EXCEPT ![e] = "done"]
    /\ Yield(e)
    /\ UNCHANGED << isLoading, error, wsConnection, renderedWs, connects, disconnects,
                    mounted, now, submitted, reserved, initial, snapshot, awaited,
                    timers, started >>

\* catch (err) { ... }: the interval is out of scope here and is not cleared.
Catch(e) ==
    /\ Running(e, "catch")
    /\ cur' = UpdError(cur, snapshot[e][execI[e]], execI[e], ErrorMessage(caught[e]))
    /\ caught' = [caught EXCEPT ![e] = ""]
    /\ execI' = [execI EXCEPT ![e] = @ + 1]
    /\ execPc' = [execPc EXCEPT ![e] = LoopHead(snapshot[e], execI[e] + 1)]
    /\ UNCHANGED << isLoading, error, wsConnection, renderedWs, connects, disconnects,
                    mounted, now, submitted, reserved, initial, startPc, snapshot,
                    awaited, timers, started, thread >>

\* Mutant: the completion step is held back while the investigation is paused.
FinishUnlessPaused(e) ==
    /\ Running(e, "finish")
    /\ cur # None /\ cur[1].status # "paused"
    /\ cur' = UpdFinish(cur, now)
    /\ execPc' = [execPc EXCEPT ![e] = "done"]
    /\ Yield(e)
    /\ UNCHANGED << isLoading, error, wsConnection, renderedWs, connects, disconnects,
                    mounted, now, submitted, reserved, initial, execI, snapshot,
                    caught, awaited, timers, started >>

\* The completion step after the loop.
Finish(e) ==
    /\ Running(e, "finish")
    /\ cur' = UpdFinish(cur, now)
    /\ execPc' = [execPc EXCEPT ![e] = "done"]
    /\ Yield(e)
    /\ UNCHANGED << isLoading, error, wsConnection, renderedWs, connects, disconnects,
                    mounted, now, submitted, reserved, initial, execI, snapshot,
                    caught, awaited, timers, started >>

\* A live interval fires.
TimerTick(tm, rnd) ==
    /\ Idle
    /\ tm \in timers
    /\ cur' = UpdProgress(cur, tm[2], rnd)
    /\ UNCHANGED << isLoading, error, wsConnection, renderedWs, connects, disconnects,
                    mounted, now, submitted, reserved, initial, startPc, execPc, execI,
                    snapshot, caught, awaited, timers, started, thread >>

Toggle ==
    /\ UserEvent
    /\ cur' = UpdToggle(cur)
    /\ UNCHANGED << isLoading, error, wsConnection, renderedWs, connects, disconnects,
                    mounted, now, submitted, reserved, initial, startPc, execPc, execI,
                    snapshot, caught, awaited, timers, started, thread >>

\* stopInvestigation, with the wsConnection its closure captured.
Stop ==
    /\ UserEvent
    /\ disconnects' = Disconnect(disconnects, renderedWs)
    /\ wsConnection' = IF renderedWs # 0 THEN 0 ELSE wsConnection
    /\ cur' = UpdStop(cur, now)
    /\ UNCHANGED << isLoading, error, renderedWs, connects, mounted, now, submitted,
                    reserved, initial, startPc, execPc, execI, snapshot, caught,
                    awaited, timers, started, thread >>

\* A commit after wsConnection changed: the effect's previous cleanup runs with
\* the connection it captured, and the closures are rebuilt.
Render ==
    /\ Idle
    /\ renderedWs # wsConnection
    /\ disconnects' = Disconnect(disconnects, renderedWs)
    /\ renderedWs' = wsConnection
    /\ UNCHANGED << cur, isLoading, error, wsConnection, connects, mounted, now,
                    submitted, reserved, initial, startPc, execPc, execI, snapshot,
                    caught, awaited, timers, started, thread >>

\* The component is torn down: the last effect's cleanup runs; later state
\* updates of an unmounted component are dropped.
Unmount ==
    /\ Idle
    /\ disconnects' = Disconnect(disconnects, renderedWs)
    /\ mounted' = FALSE
    /\ UNCHANGED << cur, isLoading, error, wsConnection, renderedWs, connects, now,
                    submitted, reserved, initial, startPc, execPc, execI, snapshot,
                    caught, awaited, timers, started, thread >>

\* Time passes.
ClockTick ==
    /\ Idle
    /\ now < MaxTime
    /\ now' = now + 1
    /\ UNCHANGED << cur, isLoading, error, wsConnection, renderedWs, connects,
                    disconnects, mounted, submitted, reserved, initial, startPc, execPc,
                    execI, snapshot, caught, awaited, timers, started, thread >>

Next ==
    \/ \E list \in PipelineLists : Submit(list)
    \/ \E e \in Tasks : BootstrapResolve(e)
    \/ \E e \in Tasks, err \in Rejections : BootstrapReject(e, err)
    \/ \E e \in Tasks : Finally(e)
    \/ \E e \in Tasks : MarkRunning(e)
    \/ \E e \in Tasks : SetInterval(e)
    \/ \E e \in Tasks : InvokeRunner(e)
    \/ \E e \in Tasks : ThrowUnknown(e)
    \/ \E e \in Tasks : RunnerResolve(e)
    \/ \E e \in Tasks, err \in RunnerRejections : RunnerReject(e, err)
    \/ \E e \in Tasks : ClearInterval(e)
    \/ \E e \in Tasks : SetCompleted(e)
    \/ \E e \in Tasks : Catch(e)
    \/ \E e \in Tasks : Finish(e)
    \/ \E tm \in timers, rnd \in Increments : TimerTick(tm, rnd)
    \/ Toggle
    \/ Stop
    \/ Render
    \/ Unmount
    \/ ClockTick

Spec == Init /\ [][Next]_vars

\* ------------------------------------------------- sessions with a restart
\* A submission of a session whose lists lead to MaxRestartCalls Stage Runner
\* calls in all.
SubmitRestart(list) ==
    /\ reserved + RunnerCalls(list) <= MaxRestartCalls
    /\ StartNew(list)

\* The sessions in which the user only submits queries and stops or toggles
\* nothing, the component stays mounted, and every Stage Runner settles before
\* the first tick of its progress interval (500 ms) and within one reading of
\* the clock.
RestartNext ==
    \/ \E list \in PipelineLists : SubmitRestart(list)
    \/ \E e \in Tasks : BootstrapResolve(e)
    \/ \E e \in Tasks, err \in Rejections : BootstrapReject(e, err)
    \/ \E e \in Tasks : Finally(e)
    \/ \E e \in Tasks : MarkRunning(e)
    \/ \E e \in Tasks : SetInterval(e)
    \/ \E e \in Tasks : InvokeRunner(e)
    \/ \E e \in Tasks : ThrowUnknown(e)
    \/ \E e \in Tasks : RunnerResolve(e)
    \/ \E e \in Tasks, err \in RunnerRejections : RunnerReject(e, err)
    \/ \E e \in Tasks : ClearInterval(e)
    \/ \E e \in Tasks : SetCompleted(e)
    \/ \E e \in Tasks : Catch(e)
    \/ \E e \in Tasks : Finish(e)
    \/ Render

RestartSpec == Init /\ [][RestartNext]_vars

\* --------------------------------------------- sessions of one investigation
\* The first submission of a session.
SubmitFirst(list) == submitted = 0 /\ Submit(list)

\* The sessions in which one query is submitted; everything else as in Next.
SingleNext ==
    \/ \E list \in PipelineLists : SubmitFirst(list)
    \/ \E e \in Tasks : BootstrapResolve(e)
    \/ \E e \in Tasks, err \in Rejections : BootstrapReject(e, err)
    \/ \E e \in Tasks : Finally(e)
    \/ \E e \in Tasks : MarkRunning(e)
    \/ \E e \in Tasks : SetInterval(e)
    \/ \E e \in Tasks : InvokeRunner(e)
    \/ \E e \in Tasks : ThrowUnknown(e)
    \/ \E e \in Tasks : RunnerResolve(e)
    \/ \E e \in Tasks, err \in RunnerRejections : RunnerReject(e, err)
    \/ \E e \in Tasks : ClearInterval(e)
    \/ \E e \in Tasks : SetCompleted(e)
    \/ \E e \in Tasks : Catch(e)
    \/ \E e \in Tasks : Finish(e)
    \/ \E tm \in timers, rnd \in Increments : TimerTick(tm, rnd)
    \/ Toggle
    \/ Stop
    \/ Render
    \/ Unmount
    \/ ClockTick

\* ---------------------------------------------------------------- fairness
\* The steps task e makes while it holds the thread: JavaScript runs a
\* synchronous block to its end.
ExecutorStep(e) ==
    \/ Finally(e)
    \/ MarkRunning(e)
    \/ SetInterval(e)
    \/ InvokeRunner(e)
    \/ ThrowUnknown(e)
    \/ ClearInterval(e)
    \/ SetCompleted(e)
    \/ Catch(e)
    \/ Finish(e)

\* The Stage Runner call task e awaits resolves or rejects.
RunnerSettles(e) ==
    RunnerResolve(e) \/ \E err \in RunnerRejections : RunnerReject(e, err)

\* Every synchronous block runs to its end and every Stage Runner call
\* settles; nothing is assumed of the user, the clock, the timers or the
\* bootstrap.
LiveSpec ==
    /\ Init /\ [][SingleNext]_vars
    /\ \A e \in Tasks : WF_vars(ExecutorStep(e)) /\ WF_vars(RunnerSettles(e))

\* ------------------------------------------------------------ vocabulary
Inv == cur[1]
Pipes == cur[1].pipelines
Stages(e) == 1..Len(snapshot[e])
RunningStages == {k \in 1..Len(Pipes) : Pipes[k].status = "running"}
RunnerMessages == {Some(ErrorMessage(err)) : err \in RunnerRejections}
UnknownMessages(list) == {Some(UnknownPipeline(list[k].id)) : k \in 1..Len(list)}
\* The executor of task e has run to its end on the investigation it was
\* started for, and no other investigation was ever submitted.
RanAlone(e) == submitted = 1 /\ execPc[e] = "done" /\ cur # None
\* The executor of task e has been entered and has not returned.
InFlight(e) == execPc[e] \notin {"idle", "done"}

\* ------------------------------------------------------------------- C1
\* C1: an executor marks its pipelines running in array order 1, 2, 3, ...,
\* and at the moment it marks pipeline i+1 running, pipeline i of the current
\* investigation already has a terminal status.
C1_SequentialOrder ==
    /\ [](\A e \in Tasks : started[e] = [k \in 1..Len(started[e]) |-> k])
    /\ [][\A e \in Tasks : MarkRunning(e) =>
            /\ execI[e] = Len(started[e]) + 1
            /\ Pipes'[execI[e]].status = "running"
            /\ execI[e] > 1 => Pipes[execI[e] - 1].status \in Terminal]_vars

C1_Witness ==
    \E e \in Tasks :
        /\ execPc[e] = "await" /\ execI[e] = 3
        /\ started[e] = << 1, 2, 3 >>
        /\ Pipes[3].status = "running"
        /\ Pipes[2].status \in Terminal /\ Pipes[1].status \in Terminal

\* ------------------------------------------------------------------- C2
\* C2: a completed pipeline has progress 100 and a result, a pipeline in error
\* has progress 0 and an error message, and no pipeline is both.
C2_TerminalShape ==
    cur # None =>
        \A k \in 1..Len(Pipes) :
            /\ Pipes[k].status = "completed" =>
                  Pipes[k].progress = FullProgress /\ Pipes[k].results # None
            /\ Pipes[k].status = "error" =>
                  Pipes[k].progress = 0 /\ Pipes[k].error # None
            /\ ~(Pipes[k].status = "completed" /\ Pipes[k].status = "error")

C2_Witness ==
    /\ cur # None
    /\ \E j, k \in 1..Len(Pipes) :
          /\ Pipes[j].status = "completed" /\ Pipes[j].results = Some(StageResult(Pipes[j].id))
          /\ Pipes[k].status = "error" /\ Pipes[k].error \in RunnerMessages

\* ------------------------------------------------------------------- C3
\* C3: a failed stage never ends the run: an executor that has stopped has
\* marked every pipeline of its list running, in order, and has made its
\* completion step; and every catch is followed by the next pipeline or the
\* completion step.
C3_FailureIsolation ==
    /\ [](\A e \in Tasks :
            execPc[e] = "done" =>
                /\ started[e] = [k \in Stages(e) |-> k]
                /\ execI[e] = Len(snapshot[e]) + 1
                /\ cur # None /\ (Inv.id = e => Inv.summary # None))
    /\ [][\A e \in Tasks : execPc[e] = "catch" /\ execPc'[e] # "catch" =>
            /\ execI'[e] = execI[e] + 1
            /\ execPc'[e] = (IF execI[e] < Len(snapshot[e]) THEN "markRunning" ELSE "finish")
            /\ Pipes'[execI[e]].status = "error"]_vars

\* A runner rejected at stage 1 and an id was unknown at stage 3, and the run
\* went on to complete stage 2 and to summarise.
C3_Witness ==
    \E e \in Tasks :
        /\ RanAlone(e)
        /\ Pipes[1].error \in RunnerMessages
        /\ Pipes[2].status = "completed"
        /\ Pipes[3].error \in UnknownMessages(initial[e])
        /\ Inv.summary # None

\* ------------------------------------------------------------------- C4
\* C4: the completion step, with k of the n pipelines completed, sets status
\* completed iff k = n and error otherwise, stamps endTime with the current
\* time and writes the summary "k/n pipelines successful", leaving the
\* pipelines as they are.
C4_CompletionStep ==
    [][\A e \in Tasks : Finish(e) =>
        LET k == Cardinality({j \in 1..Len(Pipes) : Pipes[j].status = "completed"})
            n == Len(Pipes)
        IN  /\ Inv'.status = (IF k = n THEN "completed" ELSE "error")
            /\ Inv'.endTime = Some(now)
            /\ Inv'.summary = Some(<< k, n >>)
            /\ Pipes' = Pipes]_vars

\* One rejecting runner out of five: 4/5.
C4_Witness ==
    \E e \in Tasks :
        /\ RanAlone(e)
        /\ Inv.status = "error"
        /\ Inv.summary = Some(<< 4, 5 >>)
        /\ Inv.endTime # None
        /\ Pipes[1].status = "error" /\ Pipes[1].error \in RunnerMessages
        /\ \A k \in 2..5 : Pipes[k].status = "completed"

\* ------------------------------------------------------------------- C5
\* C5: the five pipelines App creates are each resolved to a Stage Runner, so
\* none of them fails as an unknown pipeline, and when no Stage Runner
\* rejects the investigation ends with all five completed and "5/5".
C5_AppStagesRun ==
    \A e \in Tasks :
        initial[e] = AppPipelines =>
            /\ ~(execPc[e] = "catch" /\ Some(caught[e]) \in UnknownMessages(AppPipelines))
            /\ (RanAlone(e) /\ \A k \in 1..Len(Pipes) : Pipes[k].error \notin RunnerMessages)
                 => /\ Inv.summary = Some(<< 5, 5 >>)
                    /\ \A k \in 1..Len(Pipes) : Pipes[k].status = "completed"

\* ------------------------------------------------------------------- C6
\* C6: a tick of the progress simulator never lowers the progress of a running
\* pipeline, and a pipeline that is not yet terminal never has progress
\* above 90.
C6_ProgressBounds ==
    /\ [](cur # None =>
            \A k \in 1..Len(Pipes) :
                Pipes[k].status \notin Terminal => Pipes[k].progress <= ProgressCap)
    /\ [][(\E tm \in timers, rnd \in Increments : TimerTick(tm, rnd)) =>
            \A k \in 1..Len(Pipes) :
                /\ Pipes'[k].status = Pipes[k].status
                /\ Pipes[k].status = "running" => Pipes'[k].progress >= Pipes[k].progress
                /\ Pipes[k].status # "running" => Pipes'[k] = Pipes[k]]_vars

\* A running pipeline that the simulator has brought up to the cap.
C6_Witness ==
    /\ cur # None
    /\ \E k \in 1..Len(Pipes) :
          /\ Pipes[k].status = "running" /\ Pipes[k].progress = ProgressCap
          /\ \E e \in Tasks : << e, k >> \in timers /\ execPc[e] = "await"

\* ------------------------------------------------------------------- C7
\* C7: at most one pipeline of the current investigation is running.
C7_OneRunning ==
    cur # None => Cardinality(RunningStages) <= 1

\* ------------------------------------------------------------------- C8
\* C8: once an executor has moved past a stage (the stage was written
\* completed or error), the interval it started for that stage is not live.
C8_TimerCancelled ==
    \A tm \in timers : execI[tm[1]] = tm[2] /\ execPc[tm[1]] # "done"

\* ------------------------------------------------------------------- C9
\* C9: toggle on an investigation whose status is completed or error changes
\* nothing; toggle only maps active to paused and paused to active.
C9_ToggleTerminalNoOp ==
    [][Toggle /\ cur # None =>
        /\ Inv.status \in Terminal => cur' = cur
        /\ Inv.status = "active" => Inv'.status = "paused"
        /\ Inv.status = "paused" => Inv'.status = "active"]_vars

\* ------------------------------------------------------------------ C10
\* C10: disconnect is called exactly once on a channel that stop() closed,
\* counting stop's own call and every effect cleanup, and stop() stamps
\* endTime whatever the pipelines' status.
C10_DisconnectOnce ==
    /\ [](\A ch \in Tasks : disconnects[ch] <= 1)
    /\ [][Stop /\ renderedWs # 0 =>
            /\ disconnects'[renderedWs] = 1
            /\ cur' # None /\ Inv'.endTime = Some(now)]_vars

\* ------------------------------------------------------------------ C11
\* C11: endTime of an investigation is set exactly once: once it is stamped,
\* no later step on that same investigation (a further stop(), a completion
\* step of an executor still in flight) changes it.
C11_EndTimeOnce ==
    [][(cur # None /\ cur' # None /\ Inv'.id = Inv.id /\ Inv.endTime # None)
            => Inv'.endTime = Inv.endTime]_vars

\* ------------------------------------------------------------------ C12
\* C12: if the current investigation's status is completed, every one of its
\* pipelines has a terminal status.
C12_CompletedAllTerminal ==
    (cur # None /\ Inv.status = "completed") =>
        \A k \in 1..Len(Pipes) : Pipes[k].status \in Terminal

\* ------------------------------------------------------------------ C13
\* C13: if every Stage Runner call settles, then, while the component stays
\* mounted, every executor in flight reaches its completion step, which
\* leaves the investigation with status completed or error and endTime
\* stamped, and every pipeline of the investigation reaches a terminal
\* status, whatever toggle() and stop() calls are made meanwhile.
C13_Termination ==
    /\ \A e \in Tasks :
          InFlight(e) ~>
              (~mounted \/ (/\ execPc[e] = "done"
                            /\ cur # None
                            /\ Inv.status \in Terminal
                            /\ Inv.endTime # None))
    /\ (\E e \in Tasks : InFlight(e)) ~>
          (~mounted \/ (/\ \A e \in Tasks : ~InFlight(e)
                        /\ cur # None
                        /\ \A k \in 1..Len(Pipes) : Pipes[k].status \in Terminal))

\* stop() was called during the run (the channel is gone) and the executor
\* still went on to its completion step.
C13_Witness ==
    \E e \in Tasks :
        /\ RanAlone(e)
        /\ connects[e] = 1 /\ wsConnection = 0 /\ disconnects[e] >= 1
        /\ Inv.status \in Terminal /\ Inv.endTime # None
        /\ \A k \in 1..Len(Pipes) : Pipes[k].status \in Terminal

\* ------------------------------------------------------------------ C14
\* C14: when the bootstrap rejects, the current investigation is left as it
\* was, no channel is opened, no executor is started, error is set to a
\* message and isLoading returns to false.
C14_BootstrapFailure ==
    /\ [](\A e \in Tasks :
            (startPc[e] = "done" /\ execPc[e] = "idle") =>
                /\ connects[e] = 0
                /\ snapshot[e] = << >> /\ started[e] = << >>
                /\ \A tm \in timers : tm[1] # e
                /\ cur # None => Inv.id # e)
    /\ [][\A e \in Tasks, err \in Rejections : BootstrapReject(e, err) =>
            /\ cur' = cur
            /\ connects' = connects /\ wsConnection' = wsConnection
            /\ execPc' = execPc /\ timers' = timers
            /\ error' # None /\ error'[1] # ""
            /\ isLoading' = FALSE]_vars

\* The second submission's bootstrap rejected while the first investigation
\* stays the current one.
C14_Witness ==
    /\ startPc[2] = "done" /\ execPc[2] = "idle"
    /\ error = Some("Failed to start investigation")
    /\ ~isLoading
    /\ connects[2] = 0
    /\ cur # None /\ Inv.id = 1

\* ------------------------------------------------------------------ C15
\* C15: a pipeline whose id has no Stage Runner fails alone: no runner is
\* called for it, it ends in status error with the message "Unknown pipeline:
\* <id>" and progress 0, and the executor goes on with the next pipeline or
\* the completion step.
C15_UnknownKind ==
    /\ [](\A e \in Tasks :
            /\ execPc[e] = "await" => snapshot[e][execI[e]].id \in pipelineExecutors
            /\ RanAlone(e) =>
                 /\ Inv.summary # None
                 /\ \A k \in 1..Len(Pipes) :
                       Pipes[k].id \notin pipelineExecutors =>
                           /\ Pipes[k].status = "error"
                           /\ Pipes[k].progress = 0
                           /\ Pipes[k].error = Some(UnknownPipeline(Pipes[k].id)))
    /\ [][\A e \in Tasks : ThrowUnknown(e) =>
            /\ execPc'[e] = "catch"
            /\ caught'[e] = UnknownPipeline(snapshot[e][execI[e]].id)]_vars
    /\ [][\A e \in Tasks :
            (Catch(e) /\ snapshot[e][execI[e]].id \notin pipelineExecutors) =>
                /\ Pipes'[execI[e]].status = "error"
                /\ Pipes'[execI[e]].progress = 0
                /\ Pipes'[execI[e]].error = Some(UnknownPipeline(snapshot[e][execI[e]].id))
                /\ \A k \in 1..Len(Pipes) : k # execI[e] => Pipes'[k] = Pipes[k]
                /\ Inv'.status = Inv.status
                /\ execPc'[e] = LoopHead(snapshot[e], execI[e] + 1)]_vars

\* Two unknown ids, then a known stage that runs and completes, then two more
\* unknown ids and the summary.
C15_Witness ==
    \E e \in Tasks :
        /\ RanAlone(e)
        /\ initial[e] = MidPipelines
        /\ Pipes[1].error = Some("Unknown pipeline: alias")
        /\ Pipes[3].status = "completed"
        /\ Pipes[5].error = Some("Unknown pipeline: deepfake")
        /\ Inv.summary = Some(<< 1, 5 >>)

\* ------------------------------------------------------------------ C16
\* C16: whenever the current investigation has no completed pipeline, the
\* summary's averageConfidence is the number 0, not NaN.
C16_AverageZero ==
    (cur # None /\ CompletedCount(Pipes) = 0) =>
        LET summary == getInvestigationSummary(cur, now)
        IN  /\ summary # None
            /\ ~isNaN(summary[1].averageConfidence)
            /\ summary[1].averageConfidence = Number(0)

\* An investigation whose five pipelines all failed.
C16_Witness ==
    \E e \in Tasks :
        /\ RanAlone(e)
        /\ \A k \in 1..Len(Pipes) : Pipes[k].status = "error"
        /\ getInvestigationSummary(cur, now)[1].completedPipelines = 0
        /\ getInvestigationSummary(cur, now)[1].totalPipelines = 5

\* ------------------------------------------------------------------ C17
\* C17: two summaries taken with no change of the investigation in between
\* agree on totalPipelines, completedPipelines, totalResults and
\* averageConfidence; the duration of the second is not smaller than that of
\* the first, and equal to it once endTime is set.
C17_SummaryIdempotent ==
    [][(cur # None /\ cur' = cur) =>
        LET first == getInvestigationSummary(cur, now)[1]
            second == getInvestigationSummary(cur', now')[1]
        IN  /\ second.totalPipelines = first.totalPipelines
            /\ second.completedPipelines = first.completedPipelines
            /\ second.totalResults = first.totalResults
            /\ second.averageConfidence = first.averageConfidence
            /\ second.duration >= first.duration
            /\ Inv.endTime # None => second.duration = first.duration]_vars

\* An investigation that ended at its start time, summarised one clock tick
\* later with two completed pipelines.
C17_Witness ==
    /\ cur # None
    /\ Inv.startTime = 0 /\ Inv.endTime = Some(0) /\ now = 1
    /\ getInvestigationSummary(cur, now)[1].duration = 0
    /\ getInvestigationSummary(cur, now)[1].completedPipelines = 2
    /\ getInvestigationSummary(cur, now)[1].totalResults = 6
    /\ getInvestigationSummary(cur, now)[1].averageConfidence = Quotient(185, 2)

\* ------------------------------------------------------------------ C18
\* C18: within one investigation a pipeline only goes from pending to
\* running, from running to completed and from running to error, and a
\* pipeline with a terminal status is never changed again.
C18_StageTransitions ==
    [][(cur # None /\ cur' # None /\ Inv'.id = Inv.id) =>
        \A k \in 1..Len(Pipes) :
            /\ Pipes'[k].status # Pipes[k].status =>
                  << Pipes[k].status, Pipes'[k].status >> \in
                      { << "pending", "running" >>,
                        << "running", "completed" >>,
                        << "running", "error" >> }
            /\ Pipes[k].status \in Terminal => Pipes'[k] = Pipes[k]]_vars

\* ------------------------------------------------------------------ C19
\* C19: a pipeline has a result only when it is completed, an error message
\* only when it is in error and progress 100 only when it is completed; a
\* pending or running pipeline has neither and has progress below 100.
C19_FieldsFollowStatus ==
    cur # None =>
        \A k \in 1..Len(Pipes) :
            /\ Pipes[k].results # None => Pipes[k].status = "completed"
            /\ Pipes[k].error # None => Pipes[k].status = "error"
            /\ Pipes[k].progress = FullProgress => Pipes[k].status = "completed"
            /\ Pipes[k].status \in {"pending", "running"} =>
                  /\ Pipes[k].results = None
                  /\ Pipes[k].error = None
                  /\ Pipes[k].progress < FullProgress

\* One pipeline of each status, the running one with simulated progress.
C19_Witness ==
    /\ cur # None
    /\ Pipes[1].status = "completed" /\ Pipes[1].results # None
    /\ Pipes[2].status = "error" /\ Pipes[2].error # None
    /\ Pipes[3].status = "running" /\ Pipes[3].progress = RandomStep - 1
    /\ Pipes[4].status = "pending"

\* ------------------------------------------------------------------ C20
\* C20: the investigation startNewInvestigation creates has status active, no
\* endTime, no summary, and every pipeline pending with progress 0, whatever
\* status the caller's pipelines carry.
C20_FreshInvestigation ==
    [][\A e \in Tasks : BootstrapResolve(e) =>
        /\ cur' # None
        /\ Inv'.id = e
        /\ Inv'.status = "active"
        /\ Inv'.startTime = now
        /\ Inv'.endTime = None
        /\ Inv'.summary = None
        /\ Len(Pipes') = Len(initial[e])
        /\ \A k \in 1..Len(initial[e]) :
              /\ Pipes'[k].id = initial[e][k].id
              /\ Pipes'[k].status = "pending"
              /\ Pipes'[k].progress = 0]_vars

\* The investigation just created from a list whose first pipeline was passed
\* as running.
C20_Witness ==
    \E e \in Tasks :
        /\ thread = e /\ execPc[e] = "markRunning" /\ started[e] = << >>
        /\ initial[e][1].status = "running"
        /\ cur # None /\ Inv.id = e
        /\ Inv.status = "active" /\ Inv.endTime = None
        /\ \A k \in 1..Len(Pipes) : Pipes[k].status = "pending"

\* ------------------------------------------------------------------ C21
\* C21: after stop() the investigation's status stays paused: the completion
\* step of the executor that was in flight at the stop does not change it.
C21_StopFreezesStatus ==
    [][\A e \in Tasks :
          (/\ Finish(e)
           /\ submitted = 1 /\ connects[e] = 1 /\ wsConnection = 0
           /\ cur # None /\ Inv.status = "paused" /\ Inv.endTime # None)
              => Inv'.status = Inv.status]_vars

\* ------------------------------------------------------------------ C22
\* C22: stop() on an investigation that is already stopped leaves its status,
\* endTime, summary and pipelines and the channel as the first stop() left
\* them.
C22_StopIdempotent ==
    [][(/\ Stop
        /\ submitted = 1 /\ connects[1] = 1 /\ wsConnection = 0
        /\ cur # None /\ Inv.status = "paused" /\ Inv.endTime # None)
           => /\ cur' = cur
              /\ wsConnection' = wsConnection
              /\ disconnects' = disconnects]_vars

\* ------------------------------------------------------------------ C24
\* C24: at most one progress interval is live at any moment.
C24_OneTimer ==
    Cardinality(timers) <= 1

\* ------------------------------------------------------------------ C27
\* C27: the executor started for an investigation that has been replaced, and
\* its progress intervals, never change the investigation that replaced it.
C27_ReplacedExecutorSilent ==
    [][\A e \in Tasks :
          (/\ cur # None /\ Inv.id # e
           /\ \/ ExecutorStep(e)
              \/ \E tm \in timers, rnd \in Increments : tm[1] = e /\ TimerTick(tm, rnd))
              => cur' = cur]_vars

\* ------------------------------------------------------------------ C23
\* C23: toggle() changes nothing but the investigation's status, and stop()
\* nothing but its status, its endTime and the channel: pipelines, startTime,
\* summary, the executors' positions and the intervals are as before.
C23_FlagFlipsOnly ==
    /\ [][Toggle =>
            /\ UNCHANGED << isLoading, error, wsConnection, renderedWs, connects,
                            disconnects, mounted, now, submitted, reserved, initial,
                            startPc, execPc, execI, snapshot, caught, awaited, timers,
                            started, thread >>
            /\ cur = None => cur' = None
            /\ cur # None =>
                  /\ cur' # None
                  /\ [Inv' EXCEPT !.status = Inv.status] = Inv]_vars
    /\ [][Stop =>
            /\ UNCHANGED << isLoading, error, renderedWs, connects, mounted, now,
                            submitted, reserved, initial, startPc, execPc, execI,
                            snapshot, caught, awaited, timers, started, thread >>
            /\ cur = None => cur' = None
            /\ cur # None =>
                  /\ cur' # None
                  /\ [Inv' EXCEPT !.status = Inv.status, !.endTime = Inv.endTime] = Inv]_vars

\* The investigation was paused by toggle() while a stage was running with
\* simulated progress; the stage still runs with that progress.
C23_Witness ==
    /\ cur # None
    /\ Inv.status = "paused" /\ Inv.endTime = None /\ wsConnection # 0
    /\ \E e \in Tasks, k \in 1..Len(Pipes) :
          /\ execPc[e] = "await" /\ execI[e] = k /\ << e, k >> \in timers
          /\ Pipes[k].status = "running" /\ Pipes[k].progress > 0

\* ------------------------------------------------------------------ C25
\* C25: the summary's totalPipelines is the number of pipelines,
\* completedPipelines the number of completed ones, totalResults the number of
\* result items of exactly the completed ones, and duration is endTime -
\* startTime when endTime is set and now - startTime otherwise.
C25_SummaryFields ==
    cur # None =>
        LET summary == getInvestigationSummary(cur, now)
            completed == {k \in 1..Len(Pipes) : Pipes[k].status = "completed"}
            \* one pair per result item: a Stage Runner returns three items
            items == {kj \in completed \X (1..3) :
                         /\ Pipes[kj[1]].results # None
                         /\ kj[2] <= Pipes[kj[1]].results[1].data}
        IN  /\ summary # None
            /\ summary[1].totalPipelines = Len(Pipes)
            /\ summary[1].completedPipelines = Cardinality(completed)
            /\ summary[1].totalResults = Cardinality(items)
            /\ summary[1].duration =
                  (IF Inv.endTime # None THEN Inv.endTime[1] - Inv.startTime
                   ELSE now - Inv.startTime)

\* A running investigation, summarised one clock tick after its start, with
\* two completed pipelines and a failed one.
C25_Witness ==
    /\ cur # None
    /\ Inv.startTime = 0 /\ Inv.endTime = None /\ now = 1
    /\ \E k \in 1..Len(Pipes) : Pipes[k].status = "error"
    /\ \E k \in 1..Len(Pipes) : Pipes[k].status = "running"
    /\ getInvestigationSummary(cur, now)[1].totalPipelines = 5
    /\ getInvestigationSummary(cur, now)[1].completedPipelines = 2
    /\ getInvestigationSummary(cur, now)[1].totalResults = 6
    /\ getInvestigationSummary(cur, now)[1].duration = 1

\* ------------------------------------------------------------------ C26
\* C26: an executor update for pipeline i (running, progress tick, completed,
\* error) replaces entry i only: the other entries, the number of entries and
\* the investigation's id, query, startTime, status, endTime and summary stay,
\* and a tick changes nothing but the progress of entry i; the completion
\* step changes status, endTime and summary only.  (A step that leaves the
\* investigation as it is satisfies all of this.)
C26_EntryWrites ==
    /\ [][\A e \in Tasks :
            (cur # None /\ cur' # cur /\ thread = e
                 /\ (MarkRunning(e) \/ SetCompleted(e) \/ Catch(e))) =>
                /\ cur' # None
                /\ [Inv' EXCEPT !.pipelines = Inv.pipelines] = Inv
                /\ Len(Pipes') = Len(Pipes)
                /\ \A k \in 1..Len(Pipes) : k # execI[e] => Pipes'[k] = Pipes[k]]_vars
    /\ [][\A tm \in timers, rnd \in Increments :
            (cur # None /\ cur' # cur /\ thread = 0 /\ TimerTick(tm, rnd)) =>
                /\ cur' # None
                /\ [Inv' EXCEPT !.pipelines = Inv.pipelines] = Inv
                /\ Len(Pipes') = Len(Pipes)
                /\ \A k \in 1..Len(Pipes) : k # tm[2] => Pipes'[k] = Pipes[k]
                /\ [Pipes'[tm[2]] EXCEPT !.progress = Pipes[tm[2]].progress] = Pipes[tm[2]]]_vars
    /\ [][\A e \in Tasks :
            (cur # None /\ cur' # cur /\ thread = e /\ Finish(e)) =>
                /\ cur' # None
                /\ [Inv' EXCEPT !.status = Inv.status, !.endTime = Inv.endTime,
                                !.summary = Inv.summary] = Inv]_vars

\* Right after the error write of stage 2: stage 1 is still completed and the
\* stages after it are still pending.
C26_Witness ==
    \E e \in Tasks :
        /\ thread = e /\ execPc[e] = "markRunning" /\ execI[e] = 3
        /\ cur # None /\ Inv.id = e
        /\ Pipes[1].status = "completed" /\ Pipes[1].results # None
        /\ Pipes[2].status = "error" /\ Pipes[2].error \in RunnerMessages
        /\ \A k \in 3..5 : Pipes[k].status = "pending" /\ Pipes[k].error = None

====
